---- MODULE Spec2Model ----
(***************************************************************************)
(* Streak / XP / achievement engine of the SmokeLess backend.              *)
(*                                                                         *)
(* The program is a Node.js server: every request handler is an async      *)
(* function that runs without interruption between two awaits, and every   *)
(* await is a round trip to MongoDB (through Mongoose).  An action of this *)
(* model is therefore one database call of one request together with the   *)
(* synchronous code that follows it up to the next await.                  *)
(*                                                                         *)
(* A Mongoose document is an in-memory copy of a stored record; save()     *)
(* sends only the paths that were assigned a different value since the     *)
(* document was loaded or last saved ($set of the modified paths).         *)
(***************************************************************************)
EXTENDS Integers, Sequences, FiniteSets, TLC

(* ------------------------------ bounds -------------------------------- *)

\* Calendar days the clock can reach (day 0 is the day the model starts).
MaxDay == 1
\* Requests started in one behaviour.
MaxOps == 2
\* Calendar days and requests of a behaviour in which every request is a log.
MaxLogDay == 4
MaxLogs == 5

(* ------------------------------ universe ------------------------------ *)

Users == {"u1", "u2"}
Procs == {"p1", "p2"}

\* null of a Date field (instants are hours >= 0)
Null == -1

\* A Number field that can hold a fraction is kept as an exact fraction n/d, d > 0.
RECURSIVE Gcd(_, _)
Gcd(a, b) == IF b = 0 THEN a ELSE Gcd(b, a % b)
Abs(x) == IF x < 0 THEN -x ELSE x
Frac(n, d) ==
  LET g == Gcd(Abs(n), Abs(d))
      sgn == IF d < 0 THEN -1 ELSE 1
  IN  [n |-> sgn * (n \div g), d |-> sgn * (d \div g)]
\* null of such a field
NullQ == [n |-> 0, d |-> 0]
\* !x : null or 0
Falsy(q) == q.n = 0
\* q >= k for an integer k
AtLeast(q, k) == q.d > 0 /\ q.n >= k * q.d

HoursPerDay == 24

(* ----------------------- achievement.model.js ------------------------- *)

\* The catalog, in definition order: id and XP reward.
ACHIEVEMENTS ==
  << [id |-> "first_day",       xp |-> 50],
     [id |-> "week_warrior",    xp |-> 200],
     [id |-> "month_master",    xp |-> 1000],
     [id |-> "first_reduction", xp |-> 100],
     [id |-> "half_way",        xp |-> 500],
     [id |-> "smoke_free_day",  xp |-> 300],
     [id |-> "logger_10",       xp |-> 50],
     [id |-> "logger_50",       xp |-> 150],
     [id |-> "logger_100",      xp |-> 300],
     [id |-> "insight_seeker",  xp |-> 75],
     [id |-> "coach_follower",  xp |-> 100],
     [id |-> "morning_delay",   xp |-> 150],
     [id |-> "saver_10",        xp |-> 100],
     [id |-> "saver_50",        xp |-> 250],
     [id |-> "saver_100",       xp |-> 500] >>

AchIds == { ACHIEVEMENTS[i].id : i \in 1..Len(ACHIEVEMENTS) }

\* every achievement worth the XP of a log
FlatXP(id) == 10

\* Object.values(ACHIEVEMENTS).find(a => a.id === achievementId).xp
AchXP(id) ==
  LET i == CHOOSE j \in 1..Len(ACHIEVEMENTS) : ACHIEVEMENTS[j].id = id
  IN  ACHIEVEMENTS[i].xp

\* The nine threshold tests of checkAchievements, in the order of the code.
CheckList ==
  << [id |-> "first_day",    field |-> "currentStreak",   min |-> 1],
     [id |-> "week_warrior", field |-> "currentStreak",   min |-> 7],
     [id |-> "month_master", field |-> "currentStreak",   min |-> 30],
     [id |-> "logger_10",    field |-> "totalLogsCount",  min |-> 10],
     [id |-> "logger_50",    field |-> "totalLogsCount",  min |-> 50],
     [id |-> "logger_100",   field |-> "totalLogsCount",  min |-> 100],
     [id |-> "saver_10",     field |-> "totalMoneySaved", min |-> 10],
     [id |-> "saver_50",     field |-> "totalMoneySaved", min |-> 50],
     [id |-> "saver_100",    field |-> "totalMoneySaved", min |-> 100] >>

(* --------------------------- streak.model.js -------------------------- *)

\* A new Streak document: the schema defaults.
StreakDefaults ==
  [ currentStreak        |-> 0,
    longestStreak        |-> 0,
    lastActiveDate       |-> Null,
    totalXP              |-> 0,
    level                |-> 1,
    totalLogsCount       |-> 0,
    baselineDailyAverage |-> NullQ,
    baselineSetDate      |-> Null,
    costPerPack          |-> 10,
    puffsPerPack         |-> 200,
    totalMoneySaved      |-> Frac(0, 1),
    quitDate             |-> Null ]

Fields == DOMAIN StreakDefaults

(* ------------------- Mongoose documents and save() -------------------- *)

\* An in-memory document: the field values and the paths modified since the
\* document was loaded or saved.
Loaded(rec) == [doc |-> rec, dirty |-> {}]

\* this.<f> = v : Mongoose marks the path modified only when the value differs.
Assign(m, f, v) ==
  IF m.doc[f] = v THEN m
  ELSE [doc |-> [m.doc EXCEPT ![f] = v], dirty |-> m.dirty \cup {f}]

\* The stored record after save(): $set of the modified paths only.
Saved(stored, m) ==
  [f \in Fields |-> IF f \in m.dirty THEN m.doc[f] ELSE stored[f]]

(* ------------------------- the server's clock ------------------------- *)

\* The server's time zone: from local day `day` on, local midnight is moved by
\* `shift` hours (-1: clocks went forward, the day before has 23 hours;
\* +1: clocks went back, the day before has 25 hours).  day = 0: no change.
FixedZone == [day |-> 0, shift |-> 0]
Zones == {FixedZone, [day |-> 1, shift |-> -1]}

\* The instant (in hours) of local midnight of calendar day d.
Midnight(z, d) ==
  HoursPerDay * d + (IF z.day > 0 /\ d >= z.day THEN z.shift ELSE 0)

\* The hour of the day at which requests arrive.
RequestHour == 12

\* new Date() during calendar day d
Now(z, d) == Midnight(z, d) + RequestHour

\* The calendar day an instant falls in.
LocalDay(z, t) ==
  CHOOSE d \in (0 - 16)..(MaxLogDay + 2) : Midnight(z, d) <= t /\ t < Midnight(z, d + 1)

\* The wall-clock reading (hours since local midnight of day 0) of an instant.
WallClock(z, t) == HoursPerDay * LocalDay(z, t) + (t - Midnight(z, LocalDay(z, t)))

\* dayjs(a).diff(dayjs(b), 'day'): whole days between the wall-clock readings
DayjsDiffDays(z, a, b) == (WallClock(z, a) - WallClock(z, b)) \div HoursPerDay

\* dayjs().subtract(7, 'day').toDate() during calendar day d
WeekAgo(z, d) == Now(z, d - 7)

\* date.setHours(0, 0, 0, 0)
SetHoursZero(z, t) == Midnight(z, LocalDay(z, t))

(* ----------------------- streak.model.js methods ---------------------- *)

\* Math.floor(Math.sqrt(totalXP / 100)) + 1
CalculateLevel(totalXP) ==
  (CHOOSE n \in 0..(totalXP \div 100) : n * n * 100 <= totalXP
                             /\ (n + 1) * (n + 1) * 100 > totalXP) + 1

\* xpForNextLevel(): Math.pow(nextLevel - 1, 2) * 100 with nextLevel = level + 1
XpForNextLevel(level) == level * level * 100

\* addXP(amount), up to its save(): totalXP += amount; calculateLevel()
AddXP(m, amount) ==
  LET m1 == Assign(m, "totalXP", m.doc.totalXP + amount)
  IN  Assign(m1, "level", CalculateLevel(m1.doc.totalXP))

\* the day difference taken one too high
DaysSpanned(today, lastActive) == (today - lastActive) \div HoursPerDay + 1

\* Math.floor((today - lastActive) / (1000 * 60 * 60 * 24)), instants in hours
DiffDays(today, lastActive) == (today - lastActive) \div HoursPerDay

\* if (this.currentStreak > this.longestStreak)
\*   this.longestStreak = this.currentStreak
RaiseLongest(m) ==
  IF m.doc.currentStreak > m.doc.longestStreak
  THEN Assign(m, "longestStreak", m.doc.currentStreak)
  ELSE m

\* updateStreak(didLog), up to its save(), called at instant `now`
UpdateStreak(m, didLog, z, now) ==
  LET today == SetHoursZero(z, now)
      hasLast == m.doc.lastActiveDate # Null
      lastActive == IF hasLast THEN SetHoursZero(z, m.doc.lastActiveDate) ELSE Null
      diffDays == DiffDays(today, lastActive)
      fresh == IF didLog THEN 1 ELSE 0
      cur == IF ~hasLast THEN fresh
             ELSE IF diffDays = 0 THEN m.doc.currentStreak
             ELSE IF diffDays = 1 /\ didLog THEN m.doc.currentStreak + 1
             ELSE fresh
      m1 == Assign(m, "currentStreak", cur)
  IN  Assign(RaiseLongest(m1), "lastActiveDate", today)

(* --------------------------- request inputs --------------------------- *)

\* puffs of a logged event (valid values: 1..100)
PuffInputs == {7}
\* costPerPack / puffsPerPack of a cost-settings request (0: absent)
CostInputs == {0, 70}
PackInputs == {1}

(* ------------------------------- state -------------------------------- *)

VARIABLES
  day,        \* the current calendar day
  zone,       \* the server's time zone
  streaks,    \* Streak collection: per user, the stored records
  unlocks,    \* UserAchievement collection: per user and id, the number of records
  intakes,    \* Intake collection: per user, the stored events
  pc,         \* per request slot: the await the request is at
  op,         \* per request slot: the operation
  usr,        \* per request slot: req.user.id
  mem,        \* per request slot: the Streak document in memory
  arg,        \* per request slot: the request body
  idx,        \* per request slot: position in CheckList
  newAch,     \* per request slot: newAchievements of checkAchievements
  started,    \* requests started
  failed,     \* some database call rejected
  awards,     \* per user: addXP(10) calls whose save completed
  logged,     \* per user: updateStreakOnLog calls that returned
  call,       \* a Streak document on which updateStreak is called directly
  reply,      \* the last response of a read-only endpoint, with its input
  active      \* the users who send requests

vars == << day, zone, streaks, unlocks, intakes, pc, op, usr, arg, mem, idx, newAch,
           started, failed, awards, logged, call, reply, active >>

NoArg == [costPerPack |-> 0, puffsPerPack |-> 0]

NoMem == Loaded(StreakDefaults)

\* The record of a user who logged 9 events on the 6 consecutive days up to
\* the day before day 0, one request after the other (9 * 10 XP and
\* first_day's 50 XP), and deleted the events afterwards (deleteIntake leaves
\* the streak record alone).
Veteran(z) ==
  [StreakDefaults EXCEPT !.currentStreak = 6, !.longestStreak = 6,
                         !.lastActiveDate = Midnight(z, 0 - 1),
                         !.totalXP = 140, !.level = 2, !.totalLogsCount = 9]

\* No direct call: the document, the document before the last call, the
\* argument and the calendar day of the last call, and the number of calls.
NoCall == [doc |-> StreakDefaults, before |-> StreakDefaults,
           didLog |-> FALSE, at |-> 0, n |-> 0]

\* No response of a read-only endpoint yet.
NoReply == [kind |-> "none"]

\* The collections of a new user or of a veteran, no request in flight, on a
\* server whose zone has no clock change (the clock changes are followed in
\* SpecStreak).
Init ==
  /\ day = 0
  /\ zone = FixedZone
  /\ call = NoCall
  /\ reply = NoReply
  /\ active = {"u1"}
  /\ \E veteran \in BOOLEAN :
       /\ streaks = [u \in Users |-> IF veteran /\ u \in active THEN << Veteran(zone) >>
                                   ELSE << >>]
       /\ unlocks = [u \in Users |-> [a \in AchIds |->
                       IF veteran /\ a = "first_day" THEN 1 ELSE 0]]
       /\ intakes = [u \in Users |-> << >>]
       /\ awards = [u \in Users |-> IF veteran THEN 9 ELSE 0]
       /\ logged = [u \in Users |-> IF veteran THEN 9 ELSE 0]
  /\ pc = [p \in Procs |-> "idle"]
  /\ op = [p \in Procs |-> "none"]
  /\ usr = [p \in Procs |-> "u1"]
  /\ arg = [p \in Procs |-> NoArg]
  /\ mem = [p \in Procs |-> NoMem]
  /\ idx = [p \in Procs |-> 0]
  /\ newAch = [p \in Procs |-> << >>]
  /\ started = 0
  /\ failed = FALSE

(* ----------------------- collections (MongoDB) ------------------------ *)

\* Streak.findOne({ userId }) found a record
HasStreak(u) == Len(streaks[u]) > 0
\* the record it returns
StoredStreak(u) == streaks[u][1]

\* Streak.create({ userId }) under the unique index on userId:
\* TRUE when the insert is rejected with E11000.
StreakDuplicate(u) == HasStreak(u)

\* UserAchievement.findOne({ userId, achievementId }) found a record
Existing(u, a) == unlocks[u][a] > 0

\* a collection without the unique index: no insert is rejected
NeverDuplicate(u, a) == FALSE

\* UserAchievement.create under the unique index on (userId, achievementId):
\* TRUE when the insert is rejected with E11000.
UnlockDuplicate(u, a) == unlocks[u][a] > 0

\* a save whose filter does not name the user: every stored record is written
SaveUnkeyed(p) ==
  streaks' = [u \in Users |->
                IF HasStreak(u)
                THEN << Saved(StoredStreak(u), mem[p]) >> \o Tail(streaks[u])
                ELSE streaks[u]]

\* document.save() of request p
SaveMem(p) ==
  streaks' = [streaks EXCEPT ![usr[p]] =
                << Saved(StoredStreak(usr[p]), mem[p]) >> \o Tail(streaks[usr[p]])]

\* The request returns (or its error reaches the error handler).
Return(p) ==
  /\ pc' = [pc EXCEPT ![p] = "idle"]
  /\ op' = [op EXCEPT ![p] = "none"]
  /\ arg' = [arg EXCEPT ![p] = NoArg]
  /\ mem' = [mem EXCEPT ![p] = NoMem]
  /\ idx' = [idx EXCEPT ![p] = 0]
  /\ newAch' = [newAch EXCEPT ![p] = << >>]
  /\ UNCHANGED usr

\* The request goes on to its next await.
Goto(p, to, m, i, result) ==
  /\ pc' = [pc EXCEPT ![p] = to]
  /\ mem' = [mem EXCEPT ![p] = m]
  /\ idx' = [idx EXCEPT ![p] = i]
  /\ newAch' = [newAch EXCEPT ![p] = result]
  /\ UNCHANGED << op, usr, arg >>

\* Request slots are interchangeable: a request takes the first free one.
FirstFree(p) == pc[p] = "idle" /\ (p = "p2" => pc["p1"] # "idle")

(* ------------------------ gamification.service ------------------------ *)

\* the variant whose tests always pass
HoldsAlways(i, d) == TRUE

\* the threshold test of CheckList[i] on a document
Holds(i, d) ==
  IF CheckList[i].field = "totalMoneySaved"
  THEN AtLeast(d.totalMoneySaved, CheckList[i].min)
  ELSE d[CheckList[i].field] >= CheckList[i].min

\* checkAchievements stopping after the first test that holds
FirstCheckOnly(d, from) ==
  IF from = 1 /\ \E i \in 1..Len(CheckList) : Holds(i, d)
  THEN CHOOSE i \in 1..Len(CheckList) :
         Holds(i, d) /\ \A j \in 1..(i - 1) : ~Holds(j, d)
  ELSE 0

\* The next test of checkAchievements, from position `from` on, whose condition
\* holds (0: none, checkAchievements returns).
NextCheck(d, from) ==
  IF \E i \in from..Len(CheckList) : Holds(i, d)
  THEN CHOOSE i \in from..Len(CheckList) :
         Holds(i, d) /\ \A j \in from..(i - 1) : ~Holds(j, d)
  ELSE 0

\* checkAchievements goes on from position `from` with document m, or returns
\* to updateStreakOnLog, which returns to logIntake.
Advance(p, from, m, result) ==
  LET next == NextCheck(m.doc, from)
  IN  IF next = 0
      THEN Return(p) /\ logged' = [logged EXCEPT ![usr[p]] = @ + 1]
      ELSE Goto(p, "findAch", m, next, result) /\ UNCHANGED logged

(* --------------------------- health.service --------------------------- *)

RECURSIVE SumPuffs(_)
SumPuffs(evs) ==
  IF evs = << >> THEN 0
  ELSE IF Len(evs) = 1 THEN evs[1].puffs
  ELSE LET half == Len(evs) \div 2
       IN SumPuffs(SubSeq(evs, 1, half)) + SumPuffs(SubSeq(evs, half + 1, Len(evs)))

\* Intake.find({ userId, loggedAt: { $gte: from } })
IntakesSince(u, from) == SelectSeq(intakes[u], LAMBDA e : e.loggedAt >= from)

\* the variant that records the average and leaves the date alone
SetAverageOnly(m, found, now) ==
  Assign(m, "baselineDailyAverage",
         IF Len(found) > 0 THEN Frac(SumPuffs(found), 7) ELSE Frac(0, 1))

\* setBaseline after its Intake.find: the two assignments
SetBaselineFields(m, found, now) ==
  LET totalPuffs == SumPuffs(found)
      dailyAvg == IF Len(found) > 0 THEN Frac(totalPuffs, 7) ELSE Frac(0, 1)
  IN  Assign(Assign(m, "baselineDailyAverage", dailyAvg), "baselineSetDate", now)

\* calculateMoneySaved after its Intake.find: moneySaved
MoneySaved(d, found, z, now) ==
  LET diff == DayjsDiffDays(z, now, d.baselineSetDate)
      daysSinceBaseline == IF diff = 0 THEN 1 ELSE diff
      totalActualPuffs == SumPuffs(found)
      base == d.baselineDailyAverage
      \* expectedPuffs - totalActualPuffs, as a fraction over base.d
      over == base.n * daysSinceBaseline - totalActualPuffs * base.d
      savedN == IF over > 0 THEN over ELSE 0
  IN  Frac(savedN * d.costPerPack, base.d * d.puffsPerPack)

\* setCostSettings: costPerPack || streak.costPerPack
OrElse(x, y) == IF x # 0 THEN x ELSE y

(* ------------------------------ requests ------------------------------ *)

\* no request is in flight
AllQuiet == \A p \in Procs : pc[p] = "idle"

\* A request arrives in slot p, one of at most `most`.
Arrive(p, u, o, body, most) ==
  /\ FirstFree(p)
  /\ started < most
  /\ started' = started + 1
  /\ pc' = [pc EXCEPT ![p] = "findStreak"]
  /\ op' = [op EXCEPT ![p] = o]
  /\ usr' = [usr EXCEPT ![p] = u]
  /\ arg' = [arg EXCEPT ![p] = body]
  /\ UNCHANGED << active, reply, call, day, zone, streaks, unlocks, mem, idx, newAch,
                  failed, awards, logged >>

\* POST /api/intake/log: Intake.create, then updateStreakOnLog is called.
LogIntake(p) ==
  \E u \in active, puffs \in PuffInputs :
    /\ Arrive(p, u, "log", NoArg, MaxOps)
    /\ intakes' = [intakes EXCEPT ![u] =
                     Append(@, [puffs |-> puffs, loggedAt |-> Now(zone, day)])]

\* POST /api/gamification/set-baseline
SetBaseline(p) ==
  \E u \in active : Arrive(p, u, "baseline", NoArg, MaxOps) /\ UNCHANGED intakes

\* POST /api/health/quit-date (quitDate: now)
SetQuitDate(p) ==
  \E u \in active : Arrive(p, u, "quit", NoArg, MaxOps) /\ UNCHANGED intakes

\* POST /api/health/cost-settings
SetCostSettings(p) ==
  \E u \in active, c \in CostInputs, k \in PackInputs :
    /\ Arrive(p, u, "cost", [costPerPack |-> c, puffsPerPack |-> k], MaxOps)
    /\ UNCHANGED intakes

\* GET /api/health/money-saved
CalculateMoneySaved(p) ==
  \E u \in active : Arrive(p, u, "money", NoArg, MaxOps) /\ UNCHANGED intakes

\* What each operation does with the document getOrCreateStreak returned, up to
\* its next await.
GotStreak(p, m) ==
  LET now == Now(zone, day) IN
  CASE op[p] = "log" ->
         \* streak.totalLogsCount += 1; streak.updateStreak(true) up to its save
         Goto(p, "saveStreak",
              UpdateStreak(Assign(m, "totalLogsCount", m.doc.totalLogsCount + 1),
                           TRUE, zone, now),
              0, << >>)
    [] op[p] = "quit" ->
         Goto(p, "save", Assign(m, "quitDate", now), 0, << >>)
    [] op[p] = "cost" ->
         Goto(p, "save",
              Assign(Assign(m, "costPerPack",
                            OrElse(arg[p].costPerPack, m.doc.costPerPack)),
                     "puffsPerPack",
                     OrElse(arg[p].puffsPerPack, m.doc.puffsPerPack)),
              0, << >>)
    [] op[p] = "baseline" ->
         Goto(p, "findIntakes", m, 0, << >>)
    [] op[p] = "money" ->
         IF Falsy(m.doc.baselineDailyAverage) \/ m.doc.baselineSetDate = Null
         THEN Return(p)
         ELSE Goto(p, "findIntakes", m, 0, << >>)

\* getOrCreateStreak: Streak.findOne({ userId })
FindStreak(p) ==
  /\ pc[p] = "findStreak"
  /\ IF HasStreak(usr[p])
     THEN GotStreak(p, Loaded(StoredStreak(usr[p])))
     ELSE Goto(p, "createStreak", mem[p], 0, << >>)
  /\ UNCHANGED << active, reply, call, day, zone, streaks, unlocks, intakes,
                  started, failed, awards, logged >>

\* getOrCreateStreak: Streak.create({ userId }); a duplicate key error is not
\* caught and ends the request.
CreateStreak(p) ==
  /\ pc[p] = "createStreak"
  /\ IF StreakDuplicate(usr[p])
     THEN Return(p) /\ UNCHANGED streaks
     ELSE /\ streaks' = [streaks EXCEPT ![usr[p]] = << StreakDefaults >>]
          /\ GotStreak(p, Loaded(StreakDefaults))
  /\ UNCHANGED << active, reply, call, day, zone, unlocks, intakes, started, failed,
                  awards, logged >>

\* setBaseline / calculateMoneySaved: Intake.find, then the assignments
FindIntakes(p) ==
  LET now == Now(zone, day)
      m == mem[p]
  IN
  /\ pc[p] = "findIntakes"
  /\ Goto(p, "save",
          IF op[p] = "baseline"
          THEN SetBaselineFields(m, IntakesSince(usr[p], WeekAgo(zone, day)), now)
          ELSE Assign(m, "totalMoneySaved",
                      MoneySaved(m.doc, IntakesSince(usr[p], m.doc.baselineSetDate),
                                 zone, now)),
          0, << >>)
  /\ UNCHANGED << active, reply, call, day, zone, streaks, unlocks, intakes,
                  started, failed, awards, logged >>

\* streak.save() that ends setQuitDate, setCostSettings, setBaseline and
\* calculateMoneySaved
Save(p) ==
  /\ pc[p] = "save"
  /\ SaveMem(p)
  /\ Return(p)
  /\ UNCHANGED << active, reply, call, day, zone, unlocks, intakes, started, failed,
                  awards, logged >>

\* updateStreak's save(), then addXP(10) up to its save()
SaveStreak(p) ==
  /\ pc[p] = "saveStreak"
  /\ SaveMem(p)
  /\ Goto(p, "saveLogXP", AddXP(Loaded(mem[p].doc), 10), 0, << >>)
  /\ UNCHANGED << active, reply, call, day, zone, unlocks, intakes, started, failed,
                  awards, logged >>

\* addXP(10)'s save(), then checkAchievements up to its first await
SaveLogXP(p) ==
  /\ pc[p] = "saveLogXP"
  /\ SaveMem(p)
  /\ awards' = [awards EXCEPT ![usr[p]] = @ + 1]
  /\ Advance(p, 1, Loaded(mem[p].doc), << >>)
  /\ UNCHANGED << active, reply, call, day, zone, unlocks, intakes, started, failed >>

\* unlockAchievement: UserAchievement.findOne; if (existing) return false
FindAch(p) ==
  /\ pc[p] = "findAch"
  /\ IF Existing(usr[p], CheckList[idx[p]].id)
     THEN Advance(p, idx[p] + 1, mem[p], newAch[p])
     ELSE Goto(p, "createAch", mem[p], idx[p], newAch[p]) /\ UNCHANGED logged
  /\ UNCHANGED << active, reply, call, day, zone, streaks, unlocks, intakes, started,
                  failed, awards >>

\* unlockAchievement: UserAchievement.create, then streak.addXP(achievement.xp)
\* up to its save(); error.code === 11000 returns false
CreateAch(p) ==
  LET a == CheckList[idx[p]].id IN
  /\ pc[p] = "createAch"
  /\ IF UnlockDuplicate(usr[p], a)
     THEN Advance(p, idx[p] + 1, mem[p], newAch[p]) /\ UNCHANGED unlocks
     ELSE /\ unlocks' = [unlocks EXCEPT ![usr[p]][a] = @ + 1]
          /\ Goto(p, "saveAchXP", AddXP(mem[p], AchXP(a)), idx[p], newAch[p])
          /\ UNCHANGED logged
  /\ UNCHANGED << active, reply, call, day, zone, streaks, intakes, started, failed,
                  awards >>

\* addXP(achievement.xp)'s save(); unlockAchievement returns true and the
\* achievement is pushed on newAchievements
SaveAchXP(p) ==
  /\ pc[p] = "saveAchXP"
  /\ SaveMem(p)
  /\ Advance(p, idx[p] + 1, Loaded(mem[p].doc),
             Append(newAch[p], CheckList[idx[p]].id))
  /\ UNCHANGED << active, reply, call, day, zone, unlocks, intakes, started, failed,
                  awards >>

\* The database call request p awaits rejects (the store is unreachable): the
\* error is rethrown up to the controller, which passes it to the error handler.
Fail(p) ==
  /\ pc[p] # "idle"
  /\ failed' = TRUE
  /\ Return(p)
  /\ UNCHANGED << active, reply, call, day, zone, streaks, unlocks, intakes, started,
                  awards, logged >>

\* Midnight passes, up to day `last`, while a request is in flight or one of
\* the `most` can still arrive.
MidnightPasses(last, most) ==
  /\ day < last
  /\ started < most \/ \E p \in Procs : pc[p] # "idle"
  /\ day' = day + 1
  /\ UNCHANGED << active, reply, call, zone, streaks, unlocks, intakes, pc, op, usr,
                  arg, mem, idx,
                  newAch, started, failed, awards, logged >>

Tick == MidnightPasses(MaxDay, MaxOps)

Next ==
  \/ Tick
  \/ \E p \in Procs :
       \/ LogIntake(p)
       \/ SetBaseline(p)
       \/ SetQuitDate(p)
       \/ SetCostSettings(p)
       \/ CalculateMoneySaved(p)
       \/ FindStreak(p)
       \/ CreateStreak(p)
       \/ FindIntakes(p)
       \/ Save(p)
       \/ SaveStreak(p)
       \/ SaveLogXP(p)
       \/ FindAch(p)
       \/ CreateAch(p)
       \/ SaveAchXP(p)
       \/ Fail(p)

Spec == Init /\ [][Next]_vars

(* -------------------- one request after the other -------------------- *)

\* The client waits for each response before it sends the next request: only
\* the first slot is ever taken.
NextSeq == pc["p2"] = "idle" /\ Next /\ pc'["p2"] = "idle"

SpecSeq == Init /\ [][NextSeq]_vars

(* ---------------------- a new user who only logs ---------------------- *)

\* A user without a streak record, on a server whose zone has no clock change.
InitLogs ==
  /\ day = 0
  /\ zone = FixedZone
  /\ call = NoCall
  /\ reply = NoReply
  /\ active = {"u1"}
  /\ streaks = [u \in Users |-> << >>]
  /\ unlocks = [u \in Users |-> [a \in AchIds |-> 0]]
  /\ intakes = [u \in Users |-> << >>]
  /\ awards = [u \in Users |-> 0]
  /\ logged = [u \in Users |-> 0]
  /\ pc = [p \in Procs |-> "idle"]
  /\ op = [p \in Procs |-> "none"]
  /\ usr = [p \in Procs |-> "u1"]
  /\ arg = [p \in Procs |-> NoArg]
  /\ mem = [p \in Procs |-> NoMem]
  /\ idx = [p \in Procs |-> 0]
  /\ newAch = [p \in Procs |-> << >>]
  /\ started = 0
  /\ failed = FALSE

TickLogs == MidnightPasses(MaxLogDay, MaxLogs)

\* POST /api/intake/log. The record Intake.create inserts is left out: no
\* request of this specification reads the Intake collection.
LogIntakeOnly(p) ==
  \E u \in active : Arrive(p, u, "log", NoArg, MaxLogs) /\ UNCHANGED intakes

\* Every request is POST /api/intake/log and no database call rejects.
NextLogs ==
  \/ TickLogs
  \/ \E p \in Procs :
       \/ LogIntakeOnly(p)
       \/ FindStreak(p)
       \/ CreateStreak(p)
       \/ SaveStreak(p)
       \/ SaveLogXP(p)
       \/ FindAch(p)
       \/ CreateAch(p)
       \/ SaveAchXP(p)

SpecLogs == InitLogs /\ [][NextLogs]_vars

(* ------------------- updateStreak called on its own ------------------- *)

\* Calls of updateStreak on one document.
MaxCalls == 3
\* The longest streak of the documents the calls start from.
MaxStreak == 2

\* The documents the calls start from: a new one, or one whose last active
\* day is yesterday (day -1) or today (day 0), with longestStreak >= currentStreak.
StartDocs(z) ==
  {StreakDefaults} \cup
  { [StreakDefaults EXCEPT !.currentStreak = cl[1], !.longestStreak = cl[2],
                           !.lastActiveDate = Midnight(z, d)] :
      cl \in {x \in (0..MaxStreak) \X (0..MaxStreak) : x[1] <= x[2]},
      d \in {0 - 1, 0} }

InitStreak ==
  /\ day = 0
  /\ zone \in Zones
  /\ \E d \in StartDocs(zone) :
       /\ d.longestStreak >= d.currentStreak
       /\ call = [NoCall EXCEPT !.doc = d, !.before = d]
  /\ reply = NoReply
  /\ active = {"u1"}
  /\ streaks = [u \in Users |-> << >>]
  /\ unlocks = [u \in Users |-> [a \in AchIds |-> 0]]
  /\ intakes = [u \in Users |-> << >>]
  /\ awards = [u \in Users |-> 0]
  /\ logged = [u \in Users |-> 0]
  /\ pc = [p \in Procs |-> "idle"]
  /\ op = [p \in Procs |-> "none"]
  /\ usr = [p \in Procs |-> "u1"]
  /\ arg = [p \in Procs |-> NoArg]
  /\ mem = [p \in Procs |-> NoMem]
  /\ idx = [p \in Procs |-> 0]
  /\ newAch = [p \in Procs |-> << >>]
  /\ started = 0
  /\ failed = FALSE

\* streak.updateStreak(didLog) on the document, today
CallUpdateStreak ==
  /\ call.n < MaxCalls
  /\ \E didLog \in BOOLEAN :
       call' = [doc    |-> UpdateStreak(Loaded(call.doc), didLog, zone,
                                        Now(zone, day)).doc,
                before |-> call.doc,
                didLog |-> didLog,
                at     |-> day,
                n      |-> call.n + 1]
  /\ UNCHANGED << active, reply, day, zone, streaks, unlocks, intakes, pc, op, usr, arg,
                  mem, idx, newAch, started, failed, awards, logged >>

NextStreak == Tick \/ CallUpdateStreak

SpecStreak == InitStreak /\ [][NextStreak]_vars

(* --------------------- prediction.service.js ------------------------- *)

\* Numbers of the scoring are kept in thousandths (0.25 is 250); a value is
\* a number, NaN or null.
Percent == 100

Milli == 10 * Percent

Num(v) == [t |-> "number", v |-> v]

NaN == [t |-> "NaN", v |-> 0]

JsNull == [t |-> "null", v |-> 0]

\* Math.min(a, b) and Math.max(a, b): NaN if either argument is NaN
MathMin(a, b) ==
  IF a.t = "NaN" \/ b.t = "NaN" THEN NaN ELSE IF a.v <= b.v THEN a ELSE b

MathMax(a, b) ==
  IF a.t = "NaN" \/ b.t = "NaN" THEN NaN ELSE IF a.v >= b.v THEN a ELSE b

\* Math.round(x * 100) of a value in thousandths
RoundPercent(a) == IF a.t = "NaN" THEN NaN ELSE Num((a.v + 5) \div 10)

\* dayjs(t).hour() and dayjs(t).day() (day 0 of the model is a Sunday)
HourOf(z, t) == t - Midnight(z, LocalDay(z, t))

DayOfWeek(z, t) == ((LocalDay(z, t) % 7) + 7) % 7

\* dayjs().subtract(n, 'day') during calendar day d
DaysAgo(z, d, n) == Now(z, d - n)

RECURSIVE SumOver(_, _)
\* reduce((s, x) => s + f(x), 0) over a sequence
SumOver(f(_), xs) ==
  IF xs = << >> THEN 0
  ELSE IF Len(xs) = 1 THEN f(xs[1])
  ELSE LET half == Len(xs) \div 2
       IN SumOver(f, SubSeq(xs, 1, half)) + SumOver(f, SubSeq(xs, half + 1, Len(xs)))

RECURSIVE MaxOver(_, _, _)
\* Math.max(...weights, least) for the weights of the keys
MaxOver(w(_), keys, least) ==
  IF keys = {} THEN least
  ELSE LET k == CHOOSE x \in keys : TRUE
           rest == MaxOver(w, keys \ {k}, least)
       IN IF w(k) > rest THEN w(k) ELSE rest

\* the variant that never takes the sentinel branch unless there is no event
NoData(found) == Len(found) = 0

\* intakes.length < 5
NotEnoughData(found) == Len(found) < 5

\* FACTOR 1: the puffs logged in the current hour over the largest hourly sum
HourFactor(z, found, now) ==
  LET hourlyWeights(h) ==
        SumPuffs(SelectSeq(found, LAMBDA e : HourOf(z, e.loggedAt) = h))
      maxHourWeight == MaxOver(hourlyWeights, 0..23, 1)
  IN Num((Milli * hourlyWeights(HourOf(z, now))) \div maxHourWeight)

\* FACTOR 2: the puffs logged on the current weekday over the largest sum
DayFactor(z, found, now) ==
  LET dayWeights(d) ==
        SumPuffs(SelectSeq(found, LAMBDA e : DayOfWeek(z, e.loggedAt) = d))
      maxDayWeight == MaxOver(dayWeights, 0..6, 1)
  IN Num((Milli * dayWeights(DayOfWeek(z, now))) \div maxDayWeight)

\* the gaps under 24 hours between consecutive events
Gaps(found) ==
  LET all == [i \in 1..(Len(found) - 1) |->
                found[i + 1].loggedAt - found[i].loggedAt]
  IN SelectSeq(all, LAMBDA g : g < HoursPerDay)

\* Math.floor(Math.sqrt(x)) of a natural below a million
ISqrt(x) == CHOOSE r \in 0..Milli : r * r <= x /\ (r + 1) * (r + 1) > x

\* FACTOR 3: Math.min(1, Math.pow(hoursSinceLastIntake / avgGap, 1.5)) with
\* avgGap the mean of the gaps, or 4 without gaps.  0 / 0 is NaN and h / 0
\* is Infinity for h > 0; the power of a ratio below 1 is taken in
\* thousandths.
TimeFactor(found, now) ==
  LET hoursSinceLastIntake == now - found[Len(found)].loggedAt
      gaps == Gaps(found)
      gapSum == IF Len(gaps) > 0 THEN SumOver(LAMBDA g : g, gaps) ELSE 4
      gapLen == IF Len(gaps) > 0 THEN Len(gaps) ELSE 1
      ratio == (Milli * hoursSinceLastIntake * gapLen) \div gapSum
  IN IF gapSum = 0
     THEN IF hoursSinceLastIntake = 0 THEN NaN ELSE Num(Milli)
     ELSE IF ratio >= Milli THEN Num(Milli)
     ELSE Num((ratio * ISqrt(ratio * Milli)) \div Milli)

\* Math.log2(n) in thousandths, n in 1..8
Log2Milli == << 0, 1000, 1585, 2000, 2322, 2585, 2807, 3000 >>

RECURSIVE Log2(_)
\* Math.log2(n) in thousandths for larger n: log2(2m) = 1 + log2(m), and an
\* odd n lies between its neighbours
Log2(n) ==
  IF n <= Len(Log2Milli) THEN Log2Milli[n]
  ELSE IF n % 2 = 0 THEN Milli + Log2(n \div 2)
  ELSE (Log2(n - 1) + Log2(n + 1)) \div 2

Contexts == {"stress", "bored", "habit", "social", "other"}

\* FACTOR 4: 1 - entropy / log2(5) of the context counts; the entropy
\* -sum (c/n) log2 (c/n) is log2 n - (sum c log2 c) / n
ContextFactor(found) ==
  LET count(c) == Len(SelectSeq(found, LAMBDA e : e.context = c))
      used == {c \in Contexts : count(c) > 0}
      weighted(c) == count(c) * Log2(count(c))
      RECURSIVE Sum(_)
      Sum(cs) == IF cs = {} THEN 0
                 ELSE LET c == CHOOSE x \in cs : TRUE
                      IN weighted(c) + Sum(cs \ {c})
      contextEntropy == Log2(Len(found)) - (Sum(used) \div Len(found))
  IN Num(Milli - ((Milli * contextEntropy) \div Log2Milli[5]))

\* FACTOR 5: the puffs of the last three days over those of the three days
\* before, less one half, kept within 0..1; one half without earlier puffs
TrendFactor(z, d, found) ==
  LET last3DaysPuffs ==
        SumPuffs(SelectSeq(found, LAMBDA e : e.loggedAt > DaysAgo(z, d, 3)))
      prev3DaysPuffs ==
        SumPuffs(SelectSeq(found, LAMBDA e : /\ e.loggedAt > DaysAgo(z, d, 6)
                                             /\ e.loggedAt < DaysAgo(z, d, 3)))
      trendRatio == (Milli * last3DaysPuffs) \div prev3DaysPuffs
  IN IF prev3DaysPuffs > 0
     THEN MathMin(Num(Milli), MathMax(Num(0), Num(trendRatio - 500)))
     ELSE Num(500)

\* 1 / (1 + Math.exp(-6 * (x - 0.5))) at x = 0, 0.1, ..., 1, in thousandths
SigmoidMilli == << 47, 83, 142, 231, 354, 500, 646, 769, 858, 917, 953 >>

\* the smoothing, linear between the tabulated points
Sigmoid(a) ==
  IF a.t = "NaN" THEN NaN
  ELSE LET i == a.v \div 100
           f == a.v % 100
       IN IF i >= 10 THEN Num(SigmoidMilli[11])
          ELSE Num(SigmoidMilli[i + 1]
                   + ((SigmoidMilli[i + 2] - SigmoidMilli[i + 1]) * f) \div 100)

\* the weighted sum of the five factors
BaseProbability(h, d, t, c, tr) ==
  IF t.t = "NaN" THEN NaN
  ELSE Num((400 * h.v + 150 * d.v + 250 * t.v + 100 * c.v + 100 * tr.v) \div Milli)

\* Math.min(0.95, Math.max(0.05, smoothedProbability))
Clamp(smoothed) == MathMin(Num(950), MathMax(Num(50), smoothed))

\* probability > 0.7 ? 'high' : probability > 0.4 ? 'moderate' : 'low'
RiskLevel(probability) ==
  IF probability.t = "number" /\ probability.v > 700 THEN "high"
  ELSE IF probability.t = "number" /\ probability.v > 400 THEN "moderate"
  ELSE "low"

Confidence(found) ==
  IF Len(found) > 50 /\ Len(Gaps(found)) > 20 THEN "high"
  ELSE IF Len(found) < 15 THEN "low"
  ELSE "medium"

\* The result of predictCraving for the events found in the window
Prediction(z, d, found) ==
  IF NotEnoughData(found)
  THEN [probability |-> JsNull, confidence |-> "low", nextLikelyTime |-> JsNull]
  ELSE LET now == Now(z, d)
           hourFactor == HourFactor(z, found, now)
           dayFactor == DayFactor(z, found, now)
           timeFactor == TimeFactor(found, now)
           contextFactor == ContextFactor(found)
           trendFactor == TrendFactor(z, d, found)
           baseProbability == BaseProbability(hourFactor, dayFactor, timeFactor,
                                              contextFactor, trendFactor)
           probability == Clamp(Sigmoid(baseProbability))
       IN [probability |-> RoundPercent(probability),
           unrounded |-> probability,
           base |-> baseProbability,
           riskLevel |-> RiskLevel(probability),
           confidence |-> Confidence(found),
           factors |-> [hourOfDay |-> RoundPercent(hourFactor),
                        dayOfWeek |-> RoundPercent(dayFactor),
                        timeSinceLastIntake |-> RoundPercent(timeFactor),
                        patternPredictability |-> RoundPercent(contextFactor),
                        recentTrend |-> RoundPercent(trendFactor)]]

\* The most events of a history.
MaxEvents == 6

\* The stored events histories are drawn from, oldest first: one an hour
\* before the window, one at its first instant, and four within it, the last
\* at the hour of the request.
EventPool(z, d) ==
  << [puffs |-> 7, loggedAt |-> DaysAgo(z, d, 14) - 1, context |-> "habit"],
     [puffs |-> 1, loggedAt |-> DaysAgo(z, d, 14), context |-> "bored"],
     [puffs |-> 7, loggedAt |-> DaysAgo(z, d, 4), context |-> "stress"],
     [puffs |-> 100, loggedAt |-> Now(z, d - 1) - 6, context |-> "social"],
     [puffs |-> 1, loggedAt |-> Now(z, d) - 2, context |-> "habit"],
     [puffs |-> 7, loggedAt |-> Now(z, d), context |-> "stress"] >>

RECURSIVE Repeated(_, _)
Repeated(e, n) == IF n = 0 THEN << >> ELSE << e >> \o Repeated(e, n - 1)

RECURSIVE Copies(_, _, _)
\* m[i] copies of the i-th event of the pool, from the i-th on
Copies(pool, m, i) ==
  IF i > Len(pool) THEN << >>
  ELSE Repeated(pool[i], m[i]) \o Copies(pool, m, i + 1)

Histories(z, d) ==
  LET pool == EventPool(z, d)
      total(m) == SumOver(LAMBDA i : m[i], [i \in 1..Len(pool) |-> i])
  IN { Copies(pool, m, 1) :
         m \in {x \in [1..Len(pool) -> 0..MaxEvents] : total(x) <= MaxEvents} }

\* GET /api/ai/predict-craving/:userId: one find and the scoring
PredictCraving ==
  /\ \E u \in active :
       LET found == IntakesSince(u, DaysAgo(zone, day, 14))
       IN reply' = [kind |-> "prediction", userId |-> u, found |-> found,
                    result |-> Prediction(zone, day, found)]
  /\ UNCHANGED << active, call, day, zone, streaks, unlocks, intakes, pc, op, usr, arg,
                  mem, idx, newAch, started, failed, awards, logged >>

\* A user with a stored history and no request in flight.
InitPredict ==
  /\ day = 0
  /\ zone = FixedZone
  /\ call = NoCall
  /\ reply = NoReply
  /\ active = {"u1"}
  /\ streaks = [u \in Users |-> << >>]
  /\ unlocks = [u \in Users |-> [a \in AchIds |-> 0]]
  /\ \E h \in Histories(zone, day) :
       intakes = [u \in Users |-> IF u \in active THEN h ELSE << >>]
  /\ awards = [u \in Users |-> 0]
  /\ logged = [u \in Users |-> 0]
  /\ pc = [p \in Procs |-> "idle"]
  /\ op = [p \in Procs |-> "none"]
  /\ usr = [p \in Procs |-> "u1"]
  /\ arg = [p \in Procs |-> NoArg]
  /\ mem = [p \in Procs |-> NoMem]
  /\ idx = [p \in Procs |-> 0]
  /\ newAch = [p \in Procs |-> << >>]
  /\ started = 0
  /\ failed = FALSE

NextPredict == PredictCraving

\* Histories around the thresholds of the confidence: n events, the first
\* `apart` of them a day apart from the start of the window on, the others
\* all two hours before the request.
SizedHistory(z, d, n, apart) ==
  [i \in 1..n |->
     [puffs |-> 1,
      loggedAt |-> IF i <= apart THEN DaysAgo(z, d, 15 - i) ELSE Now(z, d) - 2,
      context |-> "habit"]]

SizedHistories(z, d) ==
  { SizedHistory(z, d, n, apart) : n \in {4, 5, 14, 15, 16, 49, 50, 51}, apart \in 0..13 }

\* An event every hour of the last 170 hours, the contexts in turn, 2 puffs
\* each and 1 in the first two and the last two hours: every hour of the day
\* has 14 puffs, every weekday 48, every context 34 events, every gap is one
\* hour and so is the time since the last event.
UniformHistory(z, d) ==
  [i \in 1..170 |->
     [puffs |-> IF i <= 2 \/ i >= 169 THEN 1 ELSE 2,
      loggedAt |-> Now(z, d) - 171 + i,
      context |-> << "stress", "bored", "habit", "social", "other" >>[((i - 1) % 5) + 1]]]

\* A user with one of these histories and no request in flight.
InitLarge ==
  /\ day = 0
  /\ zone = FixedZone
  /\ call = NoCall
  /\ reply = NoReply
  /\ active = {"u1"}
  /\ streaks = [u \in Users |-> << >>]
  /\ unlocks = [u \in Users |-> [a \in AchIds |-> 0]]
  /\ \E h \in SizedHistories(zone, day) \cup {UniformHistory(zone, day)} :
       intakes = [u \in Users |-> IF u \in active THEN h ELSE << >>]
  /\ awards = [u \in Users |-> 0]
  /\ logged = [u \in Users |-> 0]
  /\ pc = [p \in Procs |-> "idle"]
  /\ op = [p \in Procs |-> "none"]
  /\ usr = [p \in Procs |-> "u1"]
  /\ arg = [p \in Procs |-> NoArg]
  /\ mem = [p \in Procs |-> NoMem]
  /\ idx = [p \in Procs |-> 0]
  /\ newAch = [p \in Procs |-> << >>]
  /\ started = 0
  /\ failed = FALSE

SpecLarge == InitLarge /\ [][NextPredict]_vars

SpecPredict == InitPredict /\ [][NextPredict]_vars

(* ------------------- ai.service / openai.service --------------------- *)

\* What axios.post can settle with: a completion, or a rejection (an error
\* status, a refused connection).  No timeout is configured, so without a
\* response the promise stays pending.
Outcomes == {"ok", "error"}

\* generateOpenAIResponse / generateClaudeResponse once axios.post settled
GenerateAIResponse(outcome) ==
  IF outcome = "ok"
  THEN [success |-> TRUE, content |-> [by |-> "model"]]
  ELSE [success |-> FALSE, error |-> "AI service unavailable", fallback |-> TRUE]

\* analyzePatterns: the figures the fallback text is filled with
AnalyzePatterns(found) ==
  [totalPuffs |-> SumPuffs(found), totalSessions |-> Len(found)]

\* Object.entries(contextCounts).sort((a, b) => b[1] - a[1])[0]?.[0] || 'unknown':
\* the most frequent context, the one met first among equals
TopTrigger(found) ==
  LET count(c) == Len(SelectSeq(found, LAMBDA e : e.context = c))
      first(c) == CHOOSE i \in 1..Len(found) :
                    found[i].context = c /\ \A j \in 1..(i - 1) : found[j].context # c
  IN IF found = << >> THEN "unknown"
     ELSE CHOOSE c \in Contexts :
            /\ count(c) > 0
            /\ \A o \in Contexts \ {c} :
                 count(o) > 0 => \/ count(c) > count(o)
                                 \/ count(c) = count(o) /\ first(c) < first(o)

\* userData of generateCoachingPlan; Math.round(totalPuffs / 7)
UserData(found, streakDays) ==
  [dailyAverage |-> (2 * SumPuffs(found) + 7) \div 14,
   topTrigger |-> TopTrigger(found),
   streakDays |-> streakDays]

\* generateFallbackCoaching: the tips that apply, in order
GenerateFallbackCoaching(userData) ==
  (IF userData.topTrigger = "stress" THEN << "breathing" >> ELSE << >>)
  \o (IF userData.dailyAverage > 10 THEN << "reduce" >> ELSE << >>)
  \o (IF userData.streakDays > 0 THEN << "streak" >> ELSE << >>)
  \o << "passes" >>

\* getAICoaching after generateAIResponse returned
GetAICoaching(response, userData) ==
  IF ~response.success
  THEN [success |-> TRUE,
        content |-> [by |-> "generateFallbackCoaching",
                     tips |-> GenerateFallbackCoaching(userData)],
        source |-> "fallback"]
  ELSE [success |-> TRUE, content |-> response.content, source |-> "ai"]

\* getAIInsights after generateAIResponse returned
GetAIInsights(response, analyticsData) ==
  IF ~response.success
  THEN [success |-> TRUE,
        content |-> [by |-> "generateFallbackInsights", data |-> analyticsData],
        source |-> "fallback"]
  ELSE [success |-> TRUE, content |-> response.content, source |-> "ai"]

\* the object generateInsights returns after getAIInsights
InsightsResult(found, aiResponse) ==
  [totalLogs |-> Len(found),
   aiInsights |-> IF aiResponse.success THEN aiResponse.content ELSE JsNull,
   aiPowered |-> aiResponse.success,
   source |-> aiResponse.source]

\* the plan generateCoachingPlan returns after getAICoaching
CoachingPlan(found, streakDays, aiResponse) ==
  [currentStats |-> [weeklyPuffs |-> SumPuffs(found),
                     currentStreak |-> streakDays,
                     topTrigger |-> TopTrigger(found)],
   aiCoaching |-> IF aiResponse.success THEN aiResponse.content ELSE JsNull,
   aiPowered |-> aiResponse.success]

\* A request of the AI endpoints starts: its first find is sent.
ArriveAI(p, o) ==
  /\ FirstFree(p)
  /\ \E u \in active : usr' = [usr EXCEPT ![p] = u]
  /\ pc' = [pc EXCEPT ![p] = "aiFind"]
  /\ op' = [op EXCEPT ![p] = o]
  /\ UNCHANGED << active, reply, call, day, zone, streaks, unlocks, intakes, arg, mem, idx,
                  newAch, started, failed, awards, logged >>

\* POST /api/ai/insights (timeframe '7d')
GetInsights(p) == ArriveAI(p, "insights")

\* POST /api/ai/coaching
GetCoaching(p) == ArriveAI(p, "coaching")

\* Intake.find of the last 7 days answers.  generateInsights returns at once
\* without events and otherwise posts to the text-generation service;
\* generateCoachingPlan goes on to Streak.findOne.
AIFindIntakes(p) ==
  /\ pc[p] = "aiFind"
  /\ LET found == IntakesSince(usr[p], DaysAgo(zone, day, 7))
     IN IF op[p] = "insights" /\ Len(found) = 0
        THEN /\ reply' = [kind |-> "insights", userId |-> usr[p], external |-> "none",
                          result |-> [insights |-> << >>, aiPowered |-> FALSE]]
             /\ Return(p)
        ELSE /\ pc' = [pc EXCEPT ![p] = IF op[p] = "insights" THEN "aiPost"
                                        ELSE "aiStreak"]
             /\ mem' = [mem EXCEPT ![p] = [found |-> found, streakDays |-> 0]]
             /\ UNCHANGED << reply, op, usr, arg, idx, newAch >>
  /\ UNCHANGED << active, call, day, zone, streaks, unlocks, intakes, started, failed,
                  awards, logged >>

\* Streak.findOne answers; generateCoachingPlan posts to the service.
AIFindStreak(p) ==
  /\ pc[p] = "aiStreak"
  /\ pc' = [pc EXCEPT ![p] = "aiPost"]
  /\ mem' = [mem EXCEPT ![p].streakDays =
               IF HasStreak(usr[p]) THEN StoredStreak(usr[p]).currentStreak ELSE 0]
  /\ UNCHANGED << active, reply, call, day, zone, streaks, unlocks, intakes, op, usr, arg,
                  idx, newAch, started, failed, awards, logged >>

\* axios.post settles and the request runs to its response.
AxiosSettles(p) ==
  /\ pc[p] = "aiPost"
  /\ \E outcome \in Outcomes :
       LET response == GenerateAIResponse(outcome)
           found == mem[p].found
       IN reply' =
            [kind |-> op[p], userId |-> usr[p], external |-> outcome,
             result |->
               IF op[p] = "insights"
               THEN InsightsResult(found, GetAIInsights(response, AnalyzePatterns(found)))
               ELSE CoachingPlan(found, mem[p].streakDays,
                                 GetAICoaching(response,
                                               UserData(found, mem[p].streakDays)))]
  /\ Return(p)
  /\ UNCHANGED << active, call, day, zone, streaks, unlocks, intakes, started, failed,
                  awards, logged >>

\* The most events of a history of the AI endpoints' user.
MaxAIEvents == 2

InitAI ==
  /\ day = 0
  /\ zone = FixedZone
  /\ call = NoCall
  /\ reply = NoReply
  /\ active = {"u1"}
  /\ \E veteran \in BOOLEAN :
       streaks = [u \in Users |-> IF veteran /\ u \in active THEN << Veteran(zone) >>
                                   ELSE << >>]
  /\ unlocks = [u \in Users |-> [a \in AchIds |-> 0]]
  /\ \E h \in {x \in Histories(zone, day) : Len(x) <= MaxAIEvents} :
       intakes = [u \in Users |-> IF u \in active THEN h ELSE << >>]
  /\ awards = [u \in Users |-> 0]
  /\ logged = [u \in Users |-> 0]
  /\ pc = [p \in Procs |-> "idle"]
  /\ op = [p \in Procs |-> "none"]
  /\ usr = [p \in Procs |-> "u1"]
  /\ arg = [p \in Procs |-> NoArg]
  /\ mem = [p \in Procs |-> NoMem]
  /\ idx = [p \in Procs |-> 0]
  /\ newAch = [p \in Procs |-> << >>]
  /\ started = 0
  /\ failed = FALSE

NextAI ==
  \E p \in Procs :
    \/ GetInsights(p)
    \/ GetCoaching(p)
    \/ AIFindIntakes(p)
    \/ AIFindStreak(p)
    \/ AxiosSettles(p)

\* The database answers every find; nothing makes the text-generation
\* service answer.
SpecAI ==
  /\ InitAI
  /\ [][NextAI]_vars
  /\ \A p \in Procs : WF_vars(AIFindIntakes(p)) /\ WF_vars(AIFindStreak(p))

(* ------------------- validators.js / intake.model.js ------------------ *)

\* Values of a JSON request body: a number (an exact fraction), a string (its
\* length or its text), or a missing key.
JsNumber(n, d) == [t |-> "number", q |-> Frac(n, d)]

JsString(text) == [t |-> "string", text |-> text]

JsText(len) == [t |-> "string", len |-> len]

Undefined == [t |-> "undefined"]

Intensities == {"low", "medium", "high"}

\* q <= k for an integer k
AtMost(q, k) == q.d > 0 /\ q.n <= k * q.d

\* a validator that admits whole numbers only
WholeInRange(x, lo, hi) ==
  x.t = "number" /\ x.q.d = 1 /\ AtLeast(x.q, lo) /\ AtMost(x.q, hi)

\* z.number().min(lo).max(hi), and a Mongoose Number path with min and max
NumberInRange(x, lo, hi) ==
  x.t = "number" /\ AtLeast(x.q, lo) /\ AtMost(x.q, hi)

\* z.enum(values), and a Mongoose String path with enum
OneOf(x, values) == x.t = "string" /\ x.text \in values

\* intakeSchema.parse(req.body) of validators.js does not throw
ZodIntake(body) ==
  /\ NumberInRange(body.puffs, 1, 100)
  /\ OneOf(body.intensity, Intensities)
  /\ OneOf(body.context, Contexts)
  /\ body.notes = Undefined \/ (body.notes.t = "string" /\ body.notes.len <= 500)
  /\ body.mood = Undefined \/ NumberInRange(body.mood, 1, 5)

\* the validators of the Intake model pass in Intake.create
ModelIntake(body) ==
  /\ NumberInRange(body.puffs, 1, 100)
  /\ OneOf(body.intensity, Intensities)
  /\ OneOf(body.context, Contexts)
  /\ body.notes = Undefined \/ body.notes.len <= 500
  /\ body.mood = Undefined \/ NumberInRange(body.mood, 1, 5)

\* The request bodies posted.
Bodies ==
  [puffs : {Undefined, JsString("3"), JsNumber(0, 1), JsNumber(1, 1), JsNumber(5, 2),
            JsNumber(100, 1), JsNumber(201, 2), JsNumber(101, 1)},
   intensity : {Undefined, JsString("low"), JsString("extreme")},
   context : {JsString("stress"), JsString("party")},
   notes : {Undefined, JsText(501)},
   mood : {Undefined, JsNumber(6, 1)}]

\* POST /api/intake/log with a body: validate(intakeSchema) answers 400, or
\* logIntake creates the event and calls updateStreakOnLog.
PostIntakeLog(p) ==
  \E u \in active, body \in Bodies :
    IF ZodIntake(body) /\ ModelIntake(body)
    THEN /\ Arrive(p, u, "log", NoArg, MaxOps)
         /\ intakes' = [intakes EXCEPT ![u] =
                          Append(@, [puffs |-> body.puffs, intensity |-> body.intensity,
                                     context |-> body.context,
                                     loggedAt |-> Now(zone, day)])]
    ELSE /\ FirstFree(p)
         /\ started < MaxOps
         /\ started' = started + 1
         /\ reply' = [kind |-> "rejected", userId |-> u, status |-> 400, body |-> body]
         /\ UNCHANGED << active, call, day, zone, streaks, unlocks, intakes, pc, op,
                         usr, arg,
                         mem, idx, newAch, failed, awards, logged >>

NextValidate ==
  \E p \in Procs :
    \/ PostIntakeLog(p)
    \/ FindStreak(p)
    \/ CreateStreak(p)
    \/ SaveStreak(p)
    \/ SaveLogXP(p)
    \/ FindAch(p)
    \/ CreateAch(p)
    \/ SaveAchXP(p)

\* A new user posting to /api/intake/log on one day.
SpecValidate == InitLogs /\ [][NextValidate]_vars

(* ---------------------------- several users --------------------------- *)

\* Every user sends requests; each is new or has a record.
InitUsers ==
  /\ day = 0
  /\ zone = FixedZone
  /\ call = NoCall
  /\ reply = NoReply
  /\ active = Users
  /\ \E veterans \in SUBSET Users :
       streaks = [u \in Users |-> IF u \in veterans THEN << Veteran(zone) >>
                                  ELSE << >>]
  /\ unlocks = [u \in Users |-> [a \in AchIds |-> 0]]
  /\ intakes = [u \in Users |-> << >>]
  /\ awards = [u \in Users |-> 0]
  /\ logged = [u \in Users |-> 0]
  /\ pc = [p \in Procs |-> "idle"]
  /\ op = [p \in Procs |-> "none"]
  /\ usr = [p \in Procs |-> "u1"]
  /\ arg = [p \in Procs |-> NoArg]
  /\ mem = [p \in Procs |-> NoMem]
  /\ idx = [p \in Procs |-> 0]
  /\ newAch = [p \in Procs |-> << >>]
  /\ started = 0
  /\ failed = FALSE

\* The requests of Spec and the prediction, on one day and with a database
\* that answers.
NextUsers ==
  \/ PredictCraving
  \/ \E p \in Procs :
       \/ LogIntake(p)
       \/ SetBaseline(p)
       \/ SetQuitDate(p)
       \/ SetCostSettings(p)
       \/ CalculateMoneySaved(p)
       \/ FindStreak(p)
       \/ CreateStreak(p)
       \/ FindIntakes(p)
       \/ Save(p)
       \/ SaveStreak(p)
       \/ SaveLogXP(p)
       \/ FindAch(p)
       \/ CreateAch(p)
       \/ SaveAchXP(p)

SpecUsers == InitUsers /\ [][NextUsers]_vars

(* ------------------------- analytics service -------------------------- *)

\* Intake.find({ userId, loggedAt: { $gte: start of day `from`, $lte: end of
\* day `to` } }).sort({ loggedAt: 1 })
IntakesOfDays(z, u, from, to) ==
  SelectSeq(intakes[u], LAMBDA e : /\ e.loggedAt >= Midnight(z, from)
                                   /\ e.loggedAt < Midnight(z, to + 1))

\* the sessions of each hour, as contextBreakdown counts sessions
SessionsPerHour(z, found) ==
  [h \in 0..23 |-> Len(SelectSeq(found, LAMBDA e : HourOf(z, e.loggedAt) = h))]

\* hourlyData[dayjs(intake.loggedAt).hour()] += intake.puffs
HourlyData(z, found) ==
  [h \in 0..23 |-> SumPuffs(SelectSeq(found, LAMBDA e : HourOf(z, e.loggedAt) = h))]

\* The result of getDailyStats for the events found
DailyStats(z, found) ==
  [totalPuffs |-> SumPuffs(found),
   totalSessions |-> Len(found),
   hourlyData |-> HourlyData(z, found)]

\* calculateTrend: the least-squares slope of the values over 0..n-1,
\* numerator / denominator with xMean = (n - 1) / 2 and yMean = total / n,
\* as an exact fraction (both sums taken times 2n and 4)
CalculateTrend(values) ==
  LET n == Len(values)
      total == SumOver(LAMBDA v : v, values)
      dx(i) == 2 * (i - 1) - (n - 1)
      numerator == SumOver(LAMBDA i : dx(i) * (n * values[i] - total),
                           [i \in 1..n |-> i])
      denominator == SumOver(LAMBDA i : dx(i) * dx(i), [i \in 1..n |-> i])
  IN IF n < 2 \/ denominator = 0 THEN Frac(0, 1)
     ELSE Frac(2 * numerator, n * denominator)

\* trend > 0 ? 'increasing' : trend < 0 ? 'decreasing' : 'stable'
Direction(trend) ==
  IF trend.n > 0 THEN "increasing" ELSE IF trend.n < 0 THEN "decreasing" ELSE "stable"

\* q < k / 2 for an integer k
BelowHalves(q, k) == 2 * q.n < k * q.d

\* getTrendMessage: which of the five messages
GetTrendMessage(slope) ==
  IF BelowHalves(slope, 0 - 4) THEN "decreasing significantly"
  ELSE IF BelowHalves(slope, 0 - 1) THEN "trending down"
  ELSE IF BelowHalves(slope, 1) THEN "stable"
  ELSE IF BelowHalves(slope, 4) THEN "slightly increasing"
  ELSE "increasing"

\* The result of getWeeklyStats for the week that starts on day weekStart
WeeklyStats(z, found, weekStart) ==
  LET puffsPerDay ==
        [i \in 1..7 |->
           SumPuffs(SelectSeq(found,
                              LAMBDA e : LocalDay(z, e.loggedAt) = weekStart + i - 1))]
      trend == CalculateTrend(puffsPerDay)
  IN [totalPuffs |-> SumPuffs(found),
      totalSessions |-> Len(found),
      puffsPerDay |-> puffsPerDay,
      trend |-> [direction |-> Direction(trend), slope |-> trend,
                 message |-> GetTrendMessage(trend)]]

\* The days asked for: with events, and without.
StatDays == {0 - 6, 0 - 4, 0 - 1, 0, 1}

\* GET /api/analytics/daily/:userId?date=
GetDailyStats ==
  /\ \E u \in active, d \in StatDays :
       LET found == IntakesOfDays(zone, u, d, d)
       IN reply' = [kind |-> "daily", userId |-> u, date |-> d, found |-> found,
                    result |-> DailyStats(zone, found)]
  /\ UNCHANGED << active, call, day, zone, streaks, unlocks, intakes, pc, op, usr,
                  arg, mem, idx, newAch, started, failed, awards, logged >>

\* GET /api/analytics/weekly/:userId?startDate=
GetWeeklyStats ==
  /\ \E u \in active, d \in StatDays :
       LET found == IntakesOfDays(zone, u, d, d + 6)
       IN reply' = [kind |-> "weekly", userId |-> u, date |-> d, found |-> found,
                    result |-> WeeklyStats(zone, found, d)]
  /\ UNCHANGED << active, call, day, zone, streaks, unlocks, intakes, pc, op, usr,
                  arg, mem, idx, newAch, started, failed, awards, logged >>

NextStats == GetDailyStats \/ GetWeeklyStats

\* A user with a stored history asks for statistics.
SpecStats == InitPredict /\ [][NextStats]_vars

(* ------------------------- getMonthlyStats ---------------------------- *)

RECURSIVE WeeklyData(_, _, _, _)
\* The weekly breakdown from the week that starts on day weekStart on, for a
\* month whose last day is monthLast.  monthEnd is the last millisecond of
\* that day: for instants on whole hours, before monthEnd (or before monthEnd
\* plus a day) is before the midnight that follows it.
WeeklyData(z, found, weekStart, monthLast) ==
  IF ~(Midnight(z, weekStart) < Midnight(z, monthLast + 1)) THEN << >>
  ELSE
    LET weekEnd == weekStart + 6
        \* weekEnd.isAfter(monthEnd) ? monthEnd : weekEnd
        actualEnd == IF Midnight(z, weekEnd) >= Midnight(z, monthLast + 1)
                     THEN monthLast ELSE weekEnd
        \* logDate.isAfter(weekStart.subtract(1, 'day')) &&
        \* logDate.isBefore(actualEnd.add(1, 'day'))
        weekIntakes ==
          SelectSeq(found, LAMBDA e : /\ e.loggedAt > Midnight(z, weekStart - 1)
                                      /\ e.loggedAt < Midnight(z, actualEnd + 1))
    IN << [weekStart |-> weekStart, weekEnd |-> actualEnd,
           totalPuffs |-> SumPuffs(weekIntakes),
           sessions |-> Len(weekIntakes)] >>
       \o WeeklyData(z, found, weekStart + 7, monthLast)

\* getMonthlyStats for the month of the days monthFirst..monthLast
MonthlyStats(z, found, monthFirst, monthLast) ==
  [monthStart |-> monthFirst,
   monthEnd |-> monthLast,
   totalPuffs |-> SumPuffs(found),
   totalSessions |-> Len(found),
   weeklyData |-> WeeklyData(z, found, monthFirst, monthLast),
   daysInMonth |-> monthLast - monthFirst + 1]

\* the lengths of the month before the current one
MonthLengths == {28, 30, 31}

\* GET /api/analytics/monthly/:userId for last month, which ended yesterday
GetMonthlyStats ==
  /\ \E u \in active, len \in MonthLengths :
       LET found == IntakesOfDays(zone, u, day - len, day - 1)
       IN reply' = [kind |-> "monthly", userId |-> u, found |-> found,
                    result |-> MonthlyStats(zone, found, day - len, day - 1)]
  /\ UNCHANGED << active, call, day, zone, streaks, unlocks, intakes, pc, op, usr,
                  arg, mem, idx, newAch, started, failed, awards, logged >>

\* Events of the last 31 days: on the first days of the three months, on the
\* 7th and 8th day of each, and yesterday, at midnight and at noon.
MonthPool(z, d) ==
  { [puffs |-> 7, loggedAt |-> Midnight(z, d - back) + hour, context |-> "habit"] :
      back \in {31, 30, 28, 25, 24, 23, 22, 21, 1}, hour \in {0, RequestHour} }

\* the histories of at most two events of the pool, in the order logged
MonthHistories(z, d) ==
  {<< >>} \cup { << e >> : e \in MonthPool(z, d) }
          \cup { h \in MonthPool(z, d) \X MonthPool(z, d) : h[2].loggedAt >= h[1].loggedAt }

\* A user with such a history and no request in flight.
InitMonth ==
  /\ day = 0
  /\ zone = FixedZone
  /\ call = NoCall
  /\ reply = NoReply
  /\ active = {"u1"}
  /\ streaks = [u \in Users |-> << >>]
  /\ unlocks = [u \in Users |-> [a \in AchIds |-> 0]]
  /\ \E h \in MonthHistories(zone, day) :
       intakes = [u \in Users |-> IF u \in active THEN h ELSE << >>]
  /\ awards = [u \in Users |-> 0]
  /\ logged = [u \in Users |-> 0]
  /\ pc = [p \in Procs |-> "idle"]
  /\ op = [p \in Procs |-> "none"]
  /\ usr = [p \in Procs |-> "u1"]
  /\ arg = [p \in Procs |-> NoArg]
  /\ mem = [p \in Procs |-> NoMem]
  /\ idx = [p \in Procs |-> 0]
  /\ newAch = [p \in Procs |-> << >>]
  /\ started = 0
  /\ failed = FALSE

NextMonth == GetMonthlyStats

SpecMonth == InitMonth /\ [][NextMonth]_vars

(* --------------------------- cost settings ---------------------------- *)

\* Numbers a body of POST /api/health/cost-settings can carry: the route has
\* no validation and the schema no minimum.
CostBodies == {0 - 5, 0, 70}
PackBodies == {0 - 200, 0, 1}

\* POST /api/health/cost-settings with any of these numbers
PostCostSettings(p) ==
  \E u \in active, c \in CostBodies, k \in PackBodies :
    /\ Arrive(p, u, "cost", [costPerPack |-> c, puffsPerPack |-> k], MaxOps)
    /\ UNCHANGED intakes

NextCost ==
  \E p \in Procs :
    \/ PostCostSettings(p)
    \/ FindStreak(p)
    \/ CreateStreak(p)
    \/ Save(p)

SpecCost == Init /\ [][NextCost]_vars

(* ------------------ logs of one user, one at a time ------------------- *)

\* A user without a streak record, on a server of either zone.
InitDaily ==
  /\ day = 0
  /\ zone \in Zones
  /\ call = NoCall
  /\ reply = NoReply
  /\ active = {"u1"}
  /\ streaks = [u \in Users |-> << >>]
  /\ unlocks = [u \in Users |-> [a \in AchIds |-> 0]]
  /\ intakes = [u \in Users |-> << >>]
  /\ awards = [u \in Users |-> 0]
  /\ logged = [u \in Users |-> 0]
  /\ pc = [p \in Procs |-> "idle"]
  /\ op = [p \in Procs |-> "none"]
  /\ usr = [p \in Procs |-> "u1"]
  /\ arg = [p \in Procs |-> NoArg]
  /\ mem = [p \in Procs |-> NoMem]
  /\ idx = [p \in Procs |-> 0]
  /\ newAch = [p \in Procs |-> << >>]
  /\ started = 0
  /\ failed = FALSE

\* POST /api/intake/log: Intake.create, then updateStreakOnLog is called
LogIntakeDaily(p) ==
  \E u \in active, puffs \in PuffInputs :
    /\ Arrive(p, u, "log", NoArg, MaxLogs)
    /\ intakes' = [intakes EXCEPT ![u] =
                     Append(@, [puffs |-> puffs, loggedAt |-> Now(zone, day)])]

\* Each log is served to its end before the next arrives or midnight passes,
\* and no database call rejects.
NextDaily ==
  \/ AllQuiet /\ TickLogs
  \/ LogIntakeDaily("p1")
  \/ FindStreak("p1")
  \/ CreateStreak("p1")
  \/ SaveStreak("p1")
  \/ SaveLogXP("p1")
  \/ FindAch("p1")
  \/ CreateAch("p1")
  \/ SaveAchXP("p1")

SpecDaily == InitDaily /\ [][NextDaily]_vars

(* ------------------------------ properties ---------------------------- *)

AllIdle == \A p \in Procs : pc[p] = "idle"

RECURSIVE SumXP(_)
\* the catalog XP of a set of achievement ids
SumXP(ids) ==
  IF ids = {} THEN 0
  ELSE LET a == CHOOSE x \in ids : TRUE IN AchXP(a) + SumXP(ids \ {a})

Unlocked(u) == {a \in AchIds : unlocks[u][a] > 0}

\* Request p is about to insert an unlock record that was inserted by the
\* other request after p's findOne found none.
LosesRace(p) ==
  pc[p] = "createAch" /\ unlocks[usr[p]][CheckList[idx[p]].id] > 0

\* C1: per user and achievement id at most one unlock record exists in every
\* reachable state, and a request whose insert meets the duplicate goes on as
\* if unlockAchievement had found the record (it returns false: nothing is
\* added to newAchievements, no XP is added, the request does not end in an
\* error: it checks the next achievement or returns normally).
C1_AtMostOneUnlock ==
  /\ [](\A u \in Users, a \in AchIds : unlocks[u][a] <= 1)
  /\ [][\A p \in Procs :
          (LosesRace(p) /\ CreateAch(p)) =>
             /\ unlocks' = unlocks
             /\ streaks' = streaks
             /\ \/ pc'[p] = "findAch" /\ newAch'[p] = newAch[p]
                                      /\ mem'[p] = mem[p]
                \/ pc'[p] = "idle" /\ logged'[usr[p]] = logged[usr[p]] + 1]_vars

C1_Witness == \E p \in Procs : LosesRace(p) /\ ~failed

\* What checkAchievements(userId, streak) returns when it runs without
\* interleaving on document d with the unlock records recs: the tests that
\* hold and whose record does not exist.
NewlyUnlocked(d, recs) ==
  {CheckList[i].id : i \in {j \in 1..Len(CheckList) :
                              Holds(j, d) /\ recs[CheckList[j].id] = 0}}

\* Request p's checkAchievements returns in this step.
CheckReturns(p) ==
  /\ pc[p] \in {"saveLogXP", "findAch", "createAch", "saveAchXP"}
  /\ pc'[p] = "idle"
  /\ logged'[usr[p]] = logged[usr[p]] + 1

\* C2: when checkAchievements has returned, a second invocation on the same
\* streak document directly after it finds nothing to unlock: it returns an
\* empty list (so it creates no record and adds no XP).
C2_SecondCheckEmpty ==
  [][\A p \in Procs :
       CheckReturns(p) => NewlyUnlocked(mem[p].doc, unlocks'[usr[p]]) = {}]_vars

\* a checkAchievements run that unlocked something is about to return
C2_Witness ==
  \E p \in Procs : /\ pc[p] = "saveAchXP"
                   /\ NextCheck(mem[p].doc, idx[p] + 1) = 0
                   /\ newAch[p] = << >>

\* C3: once no request is in flight, the stored totalXP is the log XP that
\* was saved plus, for every achievement with an unlock record, exactly its
\* catalog XP.
C3_XPExactlyOnce ==
  AllIdle =>
    \A u \in Users :
      HasStreak(u) =>
        StoredStreak(u).totalXP = 10 * awards[u] + SumXP(Unlocked(u))

\* C4: when all requests have returned and no database call failed, the
\* stored totalLogsCount counts every completed log and the stored totalXP is
\* 10 per completed log plus the XP of every unlocked achievement.
C4_NoLostUpdate ==
  (AllIdle /\ ~failed) =>
    \A u \in Users :
      HasStreak(u) =>
        /\ StoredStreak(u).totalLogsCount = logged[u]
        /\ StoredStreak(u).totalXP = 10 * logged[u] + SumXP(Unlocked(u))

\* the calendar day of the document's lastActiveDate before the last call
DayBefore == LocalDay(zone, call.before.lastActiveDate)
Called == call.n > 0
HadLast == call.before.lastActiveDate # Null

\* C5: updateStreak(true) on the calendar day after lastActiveDate adds
\* exactly 1 to currentStreak.
C5_ConsecutiveDay ==
  (Called /\ call.didLog /\ HadLast /\ call.at = DayBefore + 1) =>
    call.doc.currentStreak = call.before.currentStreak + 1

C7_Restart ==
  (Called /\ (\/ ~HadLast
              \/ HadLast /\ call.at >= DayBefore + 2
              \/ HadLast /\ ~call.didLog /\ call.at # DayBefore)) =>
    call.doc.currentStreak = (IF call.didLog THEN 1 ELSE 0)

\* C8: every stored streak record has longestStreak >= currentStreak.
C8_LongestAtLeastCurrent ==
  \A u \in Users :
    HasStreak(u) => StoredStreak(u).longestStreak >= StoredStreak(u).currentStreak

\* C9: no step lowers a stored longestStreak.
C9_LongestMonotonic ==
  [][\A u \in Users :
       HasStreak(u) =>
         /\ HasStreak(u)'
         /\ StoredStreak(u)'.longestStreak >= StoredStreak(u).longestStreak]_vars

\* C10: every stored streak record has level = floor(sqrt(totalXP / 100)) + 1.
C10_LevelFormula ==
  \A u \in Users :
    HasStreak(u) => StoredStreak(u).level = CalculateLevel(StoredStreak(u).totalXP)

\* C11: no step lowers a stored totalXP.
C11_TotalXPMonotonic ==
  [][\A u \in Users :
       HasStreak(u) =>
         /\ HasStreak(u)'
         /\ StoredStreak(u)'.totalXP >= StoredStreak(u).totalXP]_vars

\* newAchievements as checkAchievements returns it in the step in which
\* request p's updateStreakOnLog returns
Returned(p) ==
  IF pc[p] = "saveAchXP" THEN Append(newAch[p], CheckList[idx[p]].id)
  ELSE newAch[p]

\* two logs and nothing else were served, both on day 0, for a user who had
\* no streak record
TwoLogsSameDay(u) ==
  /\ AllIdle /\ ~failed /\ day = 0
  /\ started = 2 /\ logged[u] = 2

\* C12: requests served one after the other, user without a streak record:
\* after two logs on the same day the stored record has currentStreak 1,
\* totalLogsCount 2, totalXP 70 (level 1), first_day is the only unlock
\* record, and, no database call having failed, newAchievements is
\* [first_day] in the first response and [] in the second.
C12_TwoLogsScenario ==
  /\ [](\A u \in Users :
          TwoLogsSameDay(u) =>
            /\ HasStreak(u)
            /\ StoredStreak(u).currentStreak = 1
            /\ StoredStreak(u).totalLogsCount = 2
            /\ StoredStreak(u).totalXP = 70
            /\ StoredStreak(u).level = 1
            /\ \A a \in AchIds :
                 unlocks[u][a] = (IF a = "first_day" THEN 1 ELSE 0))
  /\ [][\A p \in Procs :
          (CheckReturns(p) /\ ~failed /\ day = 0 /\ logged'[usr[p]] <= 2) =>
             Returned(p) = (IF logged'[usr[p]] = 1 THEN << "first_day" >>
                            ELSE << >>)]_vars

C12_Witness == \E u \in Users : TwoLogsSameDay(u) /\ HasStreak(u)

\* the stored events of a user in the 14 days up to the current instant
InLast14Days(u) ==
  {i \in 1..Len(intakes[u]) :
     Now(zone, day) - intakes[u][i].loggedAt <= 14 * HoursPerDay}

\* C13: predictCraving returns the sentinel (probability null, confidence
\* 'low', neither riskLevel nor factors) exactly when the user has fewer than
\* 5 events in the trailing 14 days, and otherwise a probability that is not
\* null together with the five factor scores.
C13_SentinelBelowFive ==
  reply.kind = "prediction" =>
    LET r == reply.result
        few == Cardinality(InLast14Days(reply.userId)) < 5
    IN /\ few <=> r.probability = JsNull
       /\ few => /\ r.confidence = "low"
                 /\ "riskLevel" \notin DOMAIN r
                 /\ "factors" \notin DOMAIN r
       /\ ~few => /\ r.probability.t # "null"
                  /\ DOMAIN r.factors = {"hourOfDay", "dayOfWeek", "timeSinceLastIntake",
                                         "patternPredictability", "recentTrend"}

C13_Witness ==
  /\ reply.kind = "prediction"
  /\ Cardinality(InLast14Days(reply.userId)) = 4
  /\ Len(intakes[reply.userId]) > 4
  /\ reply.result.probability = JsNull

C13_WitnessFull ==
  /\ reply.kind = "prediction"
  /\ Cardinality(InLast14Days(reply.userId)) = 5
  /\ reply.result.probability.t = "number"

\* C14: with at least 5 events in the window, the probability computed by
\* predictCraving is a number within [0.05, 0.95] and the reported percentage
\* a number within 5..95.
C14_ProbabilityClamped ==
  (reply.kind = "prediction" /\ Len(reply.found) >= 5) =>
    /\ reply.result.unrounded.t = "number"
    /\ reply.result.unrounded.v >= 50 /\ reply.result.unrounded.v <= 950
    /\ reply.result.probability.t = "number"
    /\ reply.result.probability.v >= 5 /\ reply.result.probability.v <= 95

\* C15: when the external text-generation call fails, the result of
\* generateInsights and of generateCoachingPlan carries the template text,
\* its aiPowered flag is not true and its provenance is 'fallback'.
C15_FallbackMarked ==
  (reply.kind \in {"insights", "coaching"} /\ reply.external = "error") =>
    LET r == reply.result
        text == IF reply.kind = "insights" THEN r.aiInsights ELSE r.aiCoaching
    IN /\ text # JsNull
       /\ text.by \in {"generateFallbackInsights", "generateFallbackCoaching"}
       /\ r.aiPowered # TRUE
       /\ "source" \in DOMAIN r
       /\ r.source = "fallback"

\* C16: every generateInsights / generateCoachingPlan request eventually
\* completes, whether or not the text-generation service responds.
C16_RequestCompletes ==
  \A p \in Procs : (pc[p] # "idle") ~> (pc[p] = "idle")

\* an event the specification admits: a whole number of puffs in 1..100 and
\* the two enums
Admitted(e) ==
  /\ WholeInRange(e.puffs, 1, 100)
  /\ OneOf(e.intensity, Intensities)
  /\ OneOf(e.context, Contexts)

\* C17: an intake log request is accepted exactly when puffs is an integer in
\* 1..100 and intensity and context are in their enums (optional fields
\* valid): every stored event is such an event, and every rejected body is
\* not (or has an invalid optional field).
C17_AcceptedIffValid ==
  /\ \A u \in Users : \A i \in 1..Len(intakes[u]) : Admitted(intakes[u][i])
  /\ reply.kind = "rejected" =>
       \/ ~Admitted(reply.body)
       \/ ~(reply.body.notes = Undefined \/ reply.body.notes.len <= 500)
       \/ ~(reply.body.mood = Undefined \/ WholeInRange(reply.body.mood, 1, 5))

\* the user a step is taken for, if it is a step of slot p
StepFor(p, u) ==
  /\ << pc[p], mem[p], idx[p], newAch[p] >> # << pc'[p], mem'[p], idx'[p], newAch'[p] >>
  /\ u = (IF pc[p] = "idle" THEN usr'[p] ELSE usr[p])

\* C18: a step changes the streak record, the unlock records and the intake
\* events of no user other than the one whose request takes the step.
C18_UsersIndependent ==
  [][\A b \in Users :
       (\/ streaks'[b] # streaks[b]
        \/ unlocks'[b] # unlocks[b]
        \/ intakes'[b] # intakes[b]) => \E p \in Procs : StepFor(p, b)]_vars

C18_Witness ==
  \E a \in Users, b \in Users :
    /\ a # b
    /\ logged[a] = 1 /\ Len(intakes[a]) = 1 /\ unlocks[a]["first_day"] = 1
    /\ \E p \in Procs : pc[p] # "idle" /\ usr[p] = b
    /\ HasStreak(b) /\ StoredStreak(b) = Veteran(zone) /\ intakes[b] = << >>

RECURSIVE SumBuckets(_, _)
\* the sum of the buckets h..23
SumBuckets(hourlyData, h) ==
  IF h > 23 THEN 0 ELSE hourlyData[h] + SumBuckets(hourlyData, h + 1)

\* C19: the 24 hourly buckets getDailyStats returns sum to its totalPuffs,
\* which is the sum of the puffs of the user's stored events of that day;
\* every bucket is 0 when the day has no event.
C19_BucketsSumToTotal ==
  reply.kind = "daily" =>
    LET r == reply.result
        ofDay == SelectSeq(intakes[reply.userId],
                           LAMBDA e : LocalDay(zone, e.loggedAt) = reply.date)
    IN /\ DOMAIN r.hourlyData = 0..23
       /\ SumBuckets(r.hourlyData, 0) = r.totalPuffs
       /\ r.totalPuffs = SumPuffs(ofDay)
       /\ ofDay = << >> => \A h \in 0..23 : r.hourlyData[h] = 0

C19_Witness ==
  /\ reply.kind = "daily"
  /\ reply.result.totalSessions >= 3
  /\ Cardinality({h \in 0..23 : reply.result.hourlyData[h] > 0}) >= 2
  /\ Len(intakes[reply.userId]) > reply.result.totalSessions

\* C20: getWeeklyStats calls the trend 'stable' whenever |slope| < 0.5,
\* 'increasing' only when slope >= 0.5 and 'decreasing' only when
\* slope <= -0.5; a week without events is 'stable'.
C20_TrendThresholds ==
  reply.kind = "weekly" =>
    LET slope == reply.result.trend.slope
        direction == reply.result.trend.direction
    IN /\ 2 * Abs(slope.n) < slope.d => direction = "stable"
       /\ direction = "increasing" => ~BelowHalves(slope, 1)
       /\ direction = "decreasing" => 2 * slope.n <= 0 - slope.d
       /\ reply.found = << >> => direction = "stable"

\* the gaps under 24 hours between consecutive events found
QualifyingGaps(found) ==
  {i \in 1..(Len(found) - 1) : found[i + 1].loggedAt - found[i].loggedAt < HoursPerDay}

\* C21: the confidence is 'high' exactly with at least 50 events and at least
\* 20 gaps under 24 hours in the window, 'low' exactly with fewer than 15
\* events, and 'medium' otherwise.
C21_ConfidenceClasses ==
  reply.kind = "prediction" =>
    LET n == Len(reply.found)
        high == n >= 50 /\ Cardinality(QualifyingGaps(reply.found)) >= 20
    IN reply.result.confidence =
         (IF high THEN "high" ELSE IF n < 15 THEN "low" ELSE "medium")

\* puff totals equal over the hours of the day and over the weekdays, as many
\* events of each context, and the last event one average gap ago
UniformInput ==
  LET found == reply.found
      perHour(h) == SumPuffs(SelectSeq(found, LAMBDA e : HourOf(zone, e.loggedAt) = h))
      perDay(w) == SumPuffs(SelectSeq(found, LAMBDA e : DayOfWeek(zone, e.loggedAt) = w))
      perContext(c) == Len(SelectSeq(found, LAMBDA e : e.context = c))
      gaps == Gaps(found)
  IN /\ Len(found) >= 5
     /\ \A h \in 0..23 : perHour(h) = perHour(0)
     /\ \A w \in 0..6 : perDay(w) = perDay(0)
     /\ \A c \in Contexts : perContext(c) = perContext("stress")
     /\ Len(gaps) > 0
     /\ (Now(zone, day) - found[Len(found)].loggedAt) * Len(gaps)
          = SumOver(LAMBDA g : g, gaps)

\* C22: on a uniform input the weighted base score is within 0.05 of 0.5 and
\* so is the squashed probability.
C22_UniformNearHalf ==
  (reply.kind = "prediction" /\ UniformInput) =>
    /\ reply.result.base.t = "number"
    /\ Abs(reply.result.base.v - 500) <= 50
    /\ Abs(reply.result.unrounded.v - 500) <= 50

\* the baseline pair of a document is whole: both null or both set
PairWhole(d) == (d.baselineDailyAverage = NullQ) <=> (d.baselineSetDate = Null)

\* C23: in every stored streak record, and in every document a request holds
\* between two database calls, baselineDailyAverage and baselineSetDate are
\* both null or both set.
C23_BaselinePairWhole ==
  /\ \A u \in Users : HasStreak(u) => PairWhole(StoredStreak(u))
  /\ \A p \in Procs : PairWhole(mem[p].doc)

\* a baseline was stored
C23_Witness ==
  \E u \in Users : HasStreak(u) /\ StoredStreak(u).baselineSetDate # Null
                                /\ StoredStreak(u).baselineDailyAverage # NullQ

\* C24: the stored costPerPack and puffsPerPack are positive, whatever the
\* cost-settings requests carried.
C24_CostSettingsPositive ==
  \A u \in Users : HasStreak(u) =>
    StoredStreak(u).costPerPack > 0 /\ StoredStreak(u).puffsPerPack > 0

\* the calendar days on which the user has an event
LogDays(u) == {LocalDay(zone, intakes[u][i].loggedAt) : i \in 1..Len(intakes[u])}

\* the length of the run of consecutive days of a set that ends at d
RunEnding(days, d) ==
  CHOOSE n \in 0..(MaxLogDay + 1) :
    /\ \A k \in 0..(n - 1) : (d - k) \in days
    /\ (d - n) \notin days

\* C25: once a log is served, currentStreak is the length of the run of
\* consecutive calendar days with a log that ends at the day of that log.
C25_StreakIsRunLength ==
  \A u \in Users :
    (AllQuiet /\ intakes[u] # << >>) =>
      /\ HasStreak(u)
      /\ StoredStreak(u).currentStreak =
           RunEnding(LogDays(u), LocalDay(zone, intakes[u][Len(intakes[u])].loggedAt))

\* C26: every stored streak record has (level - 1)^2 * 100 <= totalXP <
\* xpForNextLevel(), so the XP still needed for the next level is positive.
C26_LevelBounds ==
  \A u \in Users :
    HasStreak(u) =>
      LET d == StoredStreak(u) IN
      /\ (d.level - 1) * (d.level - 1) * 100 <= d.totalXP
      /\ d.totalXP < XpForNextLevel(d.level)

\* C27: every Streak.create of a get-or-create inserts the user's record and
\* hands it to its caller (none is rejected), and no user ever has more than
\* one record.
C27_GetOrCreateSafe ==
  [][/\ \A p \in Procs :
          (pc[p] = "createStreak" /\ pc'[p] # "createStreak") =>
            /\ ~HasStreak(usr[p])
            /\ HasStreak(usr[p])'
            /\ pc'[p] # "idle"
     /\ \A u \in Users : Len(streaks'[u]) <= 1]_vars

\* C28: a log request that ends in an error before its 10 XP are saved
\* (get-or-create of the record, the streak's save or the XP's save rejects)
\* leaves no event behind: the event it created is removed.
C28_LogAllOrNothing ==
  [][\A p \in Procs :
       (/\ op[p] = "log"
        /\ pc[p] \in {"findStreak", "createStreak", "saveStreak", "saveLogXP"}
        /\ pc'[p] = "idle") =>
         Len(intakes'[usr[p]]) = Len(intakes[usr[p]]) - 1]_vars

\* the buckets of weeklyData in which an event is counted
BucketsOf(e, weeklyData) ==
  {i \in 1..Len(weeklyData) :
     /\ e.loggedAt > Midnight(zone, weeklyData[i].weekStart - 1)
     /\ e.loggedAt < Midnight(zone, weeklyData[i].weekEnd + 1)}

\* C29: the weekly buckets of getMonthlyStats have disjoint ranges of days,
\* their totalPuffs and sessions sum to the month's totalPuffs and
\* totalSessions, and every event of the month is counted in exactly one.
C29_WeeksPartitionMonth ==
  reply.kind = "monthly" =>
    LET r == reply.result
        w == r.weeklyData
    IN /\ \A i \in 1..(Len(w) - 1) : w[i].weekEnd < w[i + 1].weekStart
       /\ SumOver(LAMBDA b : b.totalPuffs, w) = r.totalPuffs
       /\ SumOver(LAMBDA b : b.sessions, w) = r.totalSessions
       /\ \A k \in 1..Len(reply.found) :
            Cardinality(BucketsOf(reply.found[k], w)) = 1

\* the catalog achievements checkAchievements has no test for
Untested ==
  {"first_reduction", "half_way", "smoke_free_day", "insight_seeker",
   "coach_follower", "morning_delay"}

====
